---- MODULE Spec2Model ----
(***************************************************************************)
(* Model of democracy_cli (src/src/main.rs): one run of the command-line   *)
(* tool, from argument parsing to process exit.  The remote node is the    *)
(* environment: it decides whether the connection, the queries and the     *)
(* submission succeed and which finalized blocks a subscription delivers.  *)
(***************************************************************************)
EXTENDS Integers, Sequences, FiniteSets, TLC

\* ------------------------------------------------------------------ bounds
MaxBlocks == 2          \* blocks one subscription delivers at most
MaxEvents == 2          \* events in one finalized block at most

\* ------------------------------------------------------- program constants
ByteBits == 8           \* conviction and the vote byte are u8
AyeBit == 128           \* 0b1000_0000
HashLen == 32           \* H256::from_slice wants 32 bytes

\* ------------------------------------------------------------------ inputs
UserNames == {"alice", "bob", "Alice", "carol"}
Commands == {"ShowBalance", "CreateRemarkPreimage", "MakeProposal", "Vote",
             "TrackProposalStatus"}
\* the hash argument, by what hex::decode and from_slice look at:
\* the number of characters and whether all of them are hex digits
HashArgs == [chars : {62, 63, 64, 66}, hex : BOOLEAN]
NoHash == [chars |-> 0, hex |-> TRUE]
Convictions == {0, 1, 6, 127, 128, 255}
EventTypes == {"Tabled", "Started", "Passed"}

VARIABLES
  pc,          \* position of main
  argUser,     \* --user
  command,     \* the subcommand
  hashArg,     \* make-proposal <hash>
  aye,         \* create_vote's aye argument
  conviction,  \* vote <conviction>
  user,        \* the parsed User
  exit,        \* "running", "success", "error" (main returned Err), "panic"
  connects,    \* connections attempted (OnlineClient::from_url)
  latest,      \* storage().at_latest() calls
  queries,     \* storage queries issued (fetch_or_default)
  submits,     \* transactions handed to sign_and_submit_then_watch_default
  txState,     \* progress of the submitted transaction
  voteByte,    \* the byte of Vote(..) built by create_vote
  voteEvent,   \* outcome of events.find_first::<Voted>()
  waitFor,     \* event type of the current / last wait_for_event call
  subscribed,  \* per event type: subscriptions opened by wait_for_event
  subOpen,     \* subscriptions currently alive
  delivered,   \* items the current / last subscription has yielded
  results      \* per event type: what wait_for_event returned

vars == <<pc, argUser, command, hashArg, aye, conviction, user, exit, connects,
          latest, queries, submits, txState, voteByte, voteEvent, waitFor,
          subscribed, subOpen, delivered, results>>

\* ----------------------------------------------------------------- helpers
\* a parser that falls back to the default user instead of panicking
UserFromDefault(s) ==
  IF s = "bob" THEN "Bob" ELSE "Alice"

\* impl From<&str> for User
UserFrom(s) ==
  IF s = "alice" THEN "Alice" ELSE IF s = "bob" THEN "Bob" ELSE "panic"

\* User::keypair
keypair(u) == IF u = "Alice" THEN "dev::alice" ELSE "dev::bob"

RECURSIVE BitOr(_, _, _)
BitOr(a, b, n) ==
  IF n = 0 THEN 0
  ELSE (IF a % 2 = 1 \/ b % 2 = 1 THEN 1 ELSE 0)
       + 2 * BitOr(a \div 2, b \div 2, n - 1)

\* create_vote: conviction | if aye { 0b1000_0000 } else { 0 }
create_vote(a, c) == BitOr(c, IF a THEN AyeBit ELSE 0, ByteBits)

\* hex::decode: odd length and non-hex characters are errors,
\* otherwise one byte per two characters
hex_decode(h) ==
  IF h.chars % 2 = 1 \/ ~h.hex THEN [ok |-> FALSE, len |-> 0]
  ELSE [ok |-> TRUE, len |-> h.chars \div 2]

\* H256::from_slice asserts the slice length
from_slice(len) == IF len = HashLen THEN "H256" ELSE "panic"

\* wait_for_finalized, which does not look for ExtrinsicFailed
finalized_any(outcome) ==
  IF outcome \in {"finalized_ok", "dispatch_failed"} THEN "Ok" ELSE "Err"

\* wait_for_finalized_success: Ok only for a transaction finalized without
\* an ExtrinsicFailed event
finalized_success(outcome) ==
  IF outcome = "finalized_ok" THEN "Ok" ELSE "Err"

\* Events::find_first::<Ev>(): position of the first event of type ty in
\* event-list order, 0 for None
RECURSIVE FindFrom(_, _, _)
FindFrom(es, ty, i) ==
  IF i > Len(es) THEN 0
  ELSE IF es[i] = ty THEN i ELSE FindFrom(es, ty, i + 1)

\* the last event of the type instead of the first
RECURSIVE FindBack(_, _, _)
FindBack(es, ty, i) ==
  IF i = 0 THEN 0
  ELSE IF es[i] = ty THEN i ELSE FindBack(es, ty, i - 1)

find_last(es, ty) == FindBack(es, ty, Len(es))

find_first(es, ty) == FindFrom(es, ty, 1)

\* ---------------------------------------------------- the finalized stream
BlockEvents == UNION {[1..n -> EventTypes] : n \in 0..MaxEvents}
Block(es) == [kind |-> "block", events |-> es]
\* a delivered block whose events cannot be fetched or decoded
BlockErr == [kind |-> "block_err", events |-> <<>>]
\* the subscription yields an error
StreamErr == [kind |-> "stream_err", events |-> <<>>]
\* the subscription ends
StreamEnd == [kind |-> "end", events |-> <<>>]
Items == {Block(es) : es \in BlockEvents} \cup {BlockErr, StreamErr, StreamEnd}

NoResult == [kind |-> "none", blk |-> 0, pos |-> 0, err |-> ""]
OkEvent(b, p) == [kind |-> "ok", blk |-> b, pos |-> p, err |-> ""]
ErrResult(e) == [kind |-> "err", blk |-> 0, pos |-> 0, err |-> e]

\* a wait that takes the end of the stream for one more empty block
try_next_no_end(item, ty, n) ==
  IF item.kind = "end" THEN NoResult
  ELSE IF item.kind = "stream_err" THEN ErrResult("stream error")
  ELSE IF item.kind = "block_err" THEN ErrResult("events error")
  ELSE IF find_first(item.events, ty) = 0 THEN NoResult
  ELSE OkEvent(n, find_first(item.events, ty))

\* one item through try_filter_map(...).try_next() and ok_or_else: the
\* result of wait_for_event, or NoResult when the item is skipped and the
\* call keeps polling.  n is the item's place in the stream.
try_next(item, ty, n) ==
  IF item.kind = "end" THEN ErrResult("event not found")
  ELSE IF item.kind = "stream_err" THEN ErrResult("stream error")
  ELSE IF item.kind = "block_err" THEN ErrResult("events error")
  ELSE IF find_first(item.events, ty) = 0 THEN NoResult
  ELSE OkEvent(n, find_first(item.events, ty))

\* a subscription that outlives the call
KeepStream(open) == open

\* the boxed stream is a temporary of wait_for_event: it is dropped when
\* the call returns
DropStream(open) == open - 1

\* -------------------------------------------------------- main's sequencing
\* the match on the subcommand
Dispatch(c) ==
  CASE c = "ShowBalance" -> "sb_latest"
    [] c = "CreateRemarkPreimage" -> "submit"
    [] c = "MakeProposal" -> "mp_decode"
    [] c = "Vote" -> "create_vote"
    [] c = "TrackProposalStatus" -> "tp_wait_passed"

\* ShowBalance stopping after the account query
ShowBalanceOnlyAccount(p) == "done"

\* ShowBalance: the query that follows a successful one
ShowBalanceNext(p) ==
  CASE p = "sb_account" -> "sb_holds"
    [] p = "sb_holds" -> "sb_freezes"
    [] p = "sb_freezes" -> "done"

\* program.submit_and_watch(&tx).await? and what main does next
AfterSubmit(c, res) ==
  IF res = "Err" THEN "failed"
  ELSE CASE c = "CreateRemarkPreimage" -> "done"
         [] c = "MakeProposal" -> "mp_wait_tabled"
         [] c = "Vote" -> "vote_find"

\* the event type each wait_for_event call site asks for
WaitSites == {"mp_wait_tabled", "mp_wait_started", "tp_wait_passed"}
SiteEvent(p) ==
  CASE p = "mp_wait_tabled" -> "Tabled"
    [] p = "mp_wait_started" -> "Started"
    [] p = "tp_wait_passed" -> "Passed"

\* main after wait_for_event::<ty>().await returned r: r is printed with
\* {:?}, whether Ok or Err, and main goes on
AfterWait(ty, r) ==
  CASE ty = "Tabled" -> "mp_wait_started"
    [] ty = "Started" -> "done"
    [] ty = "Passed" -> "done"

\* the process exit that goes with main's next position
ExitAt(p, e) ==
  IF p = "done" THEN "success" ELSE IF p = "failed" THEN "error" ELSE e

\* ------------------------------------------------------------------- state
Start ==
  /\ pc = "parse"
  /\ user = "none"
  /\ exit = "running"
  /\ connects = 0
  /\ latest = 0
  /\ queries = 0
  /\ submits = 0
  /\ txState = "none"
  /\ voteByte = 0
  /\ voteEvent = "none"
  /\ waitFor = "none"
  /\ subscribed = [ty \in EventTypes |-> 0]
  /\ subOpen = 0
  /\ delivered = <<>>
  /\ results = [ty \in EventTypes |-> NoResult]

\* the command line; main always votes aye (create_vote(index, true, ..))
Init ==
  /\ argUser \in UserNames
  /\ command \in Commands
  /\ hashArg \in (IF command = "MakeProposal" THEN HashArgs ELSE {NoHash})
  /\ conviction \in (IF command = "Vote" THEN Convictions ELSE {0})
  /\ aye = TRUE
  /\ Start

args == <<argUser, command, hashArg, aye, conviction>>
net == <<connects, latest, queries, submits>>
tx == <<txState, voteByte, voteEvent>>
watch == <<waitFor, subscribed, subOpen, delivered, results>>

\* ----------------------------------------------------------------- actions
\* CliCommand::parse(): the --user value goes through User::from
Parse ==
  /\ pc = "parse"
  /\ IF UserFrom(argUser) = "panic"
       THEN /\ pc' = "panicked"
            /\ exit' = "panic"
            /\ user' = user
       ELSE /\ pc' = "connect"
            /\ exit' = exit
            /\ user' = UserFrom(argUser)
  /\ UNCHANGED <<args, net, tx, watch>>

\* Program::new(&url, user).await?
ProgramNew ==
  /\ pc = "connect"
  /\ connects' = connects + 1
  /\ \E ok \in BOOLEAN :
       pc' = IF ok THEN Dispatch(command) ELSE "failed"
  /\ exit' = ExitAt(pc', exit)
  /\ UNCHANGED <<args, user, latest, queries, submits, tx, watch>>

\* ShowBalance: program.api.storage().at_latest().await?
AtLatest ==
  /\ pc = "sb_latest"
  /\ latest' = latest + 1
  /\ \E ok \in BOOLEAN :
       pc' = IF ok THEN "sb_account" ELSE "failed"
  /\ exit' = ExitAt(pc', exit)
  /\ UNCHANGED <<args, user, connects, queries, submits, tx, watch>>

\* ShowBalance: api.fetch_or_default(&query).await? for account, holds
\* and freezes
FetchOrDefault ==
  /\ pc \in {"sb_account", "sb_holds", "sb_freezes"}
  /\ queries' = queries + 1
  /\ \E ok \in BOOLEAN :
       pc' = IF ok THEN ShowBalanceNext(pc) ELSE "failed"
  /\ exit' = ExitAt(pc', exit)
  /\ UNCHANGED <<args, user, connects, latest, submits, tx, watch>>

\* MakeProposal: H256::from_slice(&hex::decode(hash)?)
DecodeHash ==
  /\ pc = "mp_decode"
  /\ LET d == hex_decode(hashArg) IN
       IF ~d.ok
         THEN /\ pc' = "failed"
              /\ exit' = "error"
         ELSE IF from_slice(d.len) = "panic"
           THEN /\ pc' = "panicked"
                /\ exit' = "panic"
           ELSE /\ pc' = "submit"
                /\ exit' = exit
  /\ UNCHANGED <<args, user, net, tx, watch>>

\* Vote: create_vote(index, aye, conviction, balance)
CreateVote ==
  /\ pc = "create_vote"
  /\ voteByte' = create_vote(aye, conviction)
  /\ pc' = "submit"
  /\ UNCHANGED <<args, user, exit, net, txState, voteEvent, watch>>

\* submit_and_watch: sign_and_submit_then_watch_default(..).await ... ?
SignAndSubmit ==
  /\ pc = "submit"
  /\ submits' = submits + 1
  /\ \E ok \in BOOLEAN :
       IF ok
         THEN /\ txState' = "submitted"
              /\ pc' = "watch"
         ELSE /\ txState' = "submit_err"
              /\ pc' = AfterSubmit(command, "Err")
  /\ exit' = ExitAt(pc', exit)
  /\ UNCHANGED <<args, user, connects, latest, queries, voteByte, voteEvent,
                 watch>>

\* the transaction is reported in a block; wait_for_finalized_success
\* keeps waiting
InBlock ==
  /\ pc = "watch"
  /\ txState = "submitted"
  /\ txState' = "inblock"
  /\ UNCHANGED <<pc, args, user, exit, net, voteByte, voteEvent, watch>>

\* submit_and_watch: .wait_for_finalized_success().await returns, and main
\* applies ? to the result
Finalized ==
  /\ pc = "watch"
  /\ txState \in {"submitted", "inblock"}
  /\ \E outcome \in {"finalized_ok", "dispatch_failed", "errored"} :
       /\ txState' = outcome
       /\ pc' = AfterSubmit(command, finalized_success(outcome))
  /\ exit' = ExitAt(pc', exit)
  /\ UNCHANGED <<args, user, net, voteByte, voteEvent, watch>>

\* Vote: events.find_first::<Voted>()? on the receipt
VoteFind ==
  /\ pc = "vote_find"
  /\ \E found \in {"Some", "None", "Err"} :
       /\ voteEvent' = found
       /\ pc' = IF found = "Err" THEN "failed" ELSE "done"
  /\ exit' = ExitAt(pc', exit)
  /\ UNCHANGED <<args, user, net, txState, voteByte, watch>>

\* wait_for_event: self.api.blocks().subscribe_finalized().await?
Subscribe ==
  /\ pc \in WaitSites
  /\ LET ty == SiteEvent(pc) IN
       /\ waitFor' = ty
       /\ delivered' = <<>>
       /\ \E ok \in BOOLEAN :
            IF ok
              THEN /\ subscribed' = [subscribed EXCEPT ![ty] = @ + 1]
                   /\ subOpen' = subOpen + 1
                   /\ results' = results
                   /\ pc' = "ev_next"
              ELSE /\ subscribed' = subscribed
                   /\ subOpen' = subOpen
                   /\ results' = [results EXCEPT ![ty] = ErrResult("subscribe error")]
                   /\ pc' = AfterWait(ty, results'[ty])
  /\ exit' = ExitAt(pc', exit)
  /\ UNCHANGED <<args, user, net, tx>>

\* wait_for_event: the subscription yields its next item to try_next
Deliver ==
  /\ pc = "ev_next"
  /\ \E item \in Items :
       /\ item.kind = "block" => Len(delivered) < MaxBlocks
       /\ delivered' = Append(delivered, item)
       /\ LET r == try_next(item, waitFor, Len(delivered'))
          IN IF r.kind = "none"
               THEN /\ pc' = pc
                    /\ UNCHANGED <<results, subOpen>>
               ELSE /\ results' = [results EXCEPT ![waitFor] = r]
                    /\ subOpen' = DropStream(subOpen)
                    /\ pc' = AfterWait(waitFor, r)
  /\ exit' = ExitAt(pc', exit)
  /\ UNCHANGED <<args, user, net, tx, waitFor, subscribed>>

Next ==
  \/ Parse
  \/ ProgramNew
  \/ AtLatest
  \/ FetchOrDefault
  \/ DecodeHash
  \/ CreateVote
  \/ SignAndSubmit
  \/ InBlock
  \/ Finalized
  \/ VoteFind
  \/ Subscribe
  \/ Deliver

Spec == Init /\ [][Next]_vars

\* ------------------------------------------- create_vote as a pure function
InitVote ==
  /\ argUser = "alice"
  /\ command = "Vote"
  /\ hashArg = NoHash
  /\ conviction \in 0..(2^ByteBits - 1)
  /\ aye \in BOOLEAN
  /\ Start

\* the call of create_vote alone
CallCreateVote ==
  /\ pc = "parse"
  /\ voteByte' = create_vote(aye, conviction)
  /\ pc' = "built"
  /\ UNCHANGED <<args, user, exit, net, txState, voteEvent, watch>>

NextVote == CallCreateVote

SpecVote == InitVote /\ [][NextVote]_vars

\* ------------------------------------------------------------------ claims
Last(q) == q[Len(q)]
HasEvent(item, ty) ==
  item.kind = "block" /\ \E q \in 1..Len(item.events) : item.events[q] = ty
InFlight == IF txState \in {"submitted", "inblock"} THEN 1 ELSE 0

\* C1: a run exits with success only if no step failed; once a
\* wait_for_event has returned an error, no later step is taken.
ClaimC1 ==
  /\ exit = "success" => \A ty \in EventTypes : results[ty].kind # "err"
  /\ results["Tabled"].kind = "err" =>
       /\ subscribed["Started"] = 0
       /\ results["Started"].kind = "none"

\* C2: the vote byte has bit 7 set iff aye, and its low 7 bits are the
\* conviction modulo 128.
ClaimC2 ==
  pc = "built" =>
    /\ ((voteByte \div AyeBit) % 2 = 1) <=> aye
    /\ voteByte % AyeBit = conviction % AyeBit

\* C3: in make-proposal, when the submission fails (submission error,
\* dispatch failure, watch error) the run ends in error and no
\* wait_for_event call is made: no subscription is ever opened.
TheoremC3 ==
  (command = "MakeProposal"
     /\ txState \in {"submit_err", "dispatch_failed", "errored"}) =>
    /\ pc = "failed"
    /\ exit = "error"
    /\ waitFor = "none"
    /\ subOpen = 0
    /\ \A ty \in EventTypes : subscribed[ty] = 0 /\ results[ty].kind = "none"

WitnessC3 ==
  command = "MakeProposal" /\ txState = "dispatch_failed" /\ exit = "error"

\* C4: the event wait_for_event returns is the first event of the requested
\* type of the earliest delivered block that holds one; the blocks before it
\* were delivered and hold none, and the block of the match is the last one
\* the call consumed.
TheoremC4 ==
  waitFor # "none" =>
    LET r == results[waitFor] IN
    /\ r.kind = "ok" =>
         /\ r.blk = Len(delivered)
         /\ delivered[r.blk].kind = "block"
         /\ r.pos \in 1..Len(delivered[r.blk].events)
         /\ delivered[r.blk].events[r.pos] = waitFor
         /\ \A q \in 1..(r.pos - 1) : delivered[r.blk].events[q] # waitFor
         /\ \A i \in 1..(r.blk - 1) :
              delivered[i].kind = "block" /\ ~HasEvent(delivered[i], waitFor)
    /\ \A i \in 1..Len(delivered) :
         HasEvent(delivered[i], waitFor) =>
           i = Len(delivered) /\ r.kind = "ok" /\ r.blk = i /\ pc # "ev_next"

WitnessC4 ==
  /\ waitFor = "Tabled"
  /\ results["Tabled"] = OkEvent(2, 1)
  /\ Len(delivered) = 2
  /\ delivered[1].events # <<>>
  /\ delivered[2].events = <<"Tabled", "Tabled">>

\* C5: when the stream ends and no delivered block held an event of the
\* requested type, wait_for_event returns "event not found" and stops
\* polling; it returns that error in no other case.
TheoremC5 ==
  waitFor # "none" =>
    LET r == results[waitFor] IN
    /\ (delivered # <<>> /\ Last(delivered).kind = "end") =>
         /\ r = ErrResult("event not found")
         /\ pc # "ev_next"
         /\ subOpen = 0
    /\ r.err = "event not found" =>
         /\ delivered # <<>>
         /\ Last(delivered).kind = "end"
         /\ \A i \in 1..Len(delivered) : ~HasEvent(delivered[i], waitFor)

WitnessC5 ==
  /\ waitFor = "Passed"
  /\ Len(delivered) = 3
  /\ delivered[1].events # <<>>
  /\ Last(delivered).kind = "end"
  /\ results["Passed"].err = "event not found"

\* C6: only "alice" and "bob" resolve to a user, to two different key
\* pairs; with any other --user value the run panics while parsing, before
\* any connection, query, subscription or submission.
TheoremC6 ==
  /\ argUser \notin {"alice", "bob"} =>
       /\ user = "none"
       /\ pc \in {"parse", "panicked"}
       /\ exit \in {"running", "panic"}
       /\ connects = 0 /\ latest = 0 /\ queries = 0 /\ submits = 0
       /\ \A ty \in EventTypes : subscribed[ty] = 0
  /\ (argUser = "alice" /\ pc # "parse") => user = "Alice"
  /\ (argUser = "bob" /\ pc # "parse") => user = "Bob"
  /\ keypair("Alice") # keypair("Bob")

WitnessC6 == argUser = "Alice" /\ pc = "panicked" /\ exit = "panic"

\* C7: a show-balance run submits nothing and opens no subscription, and
\* one that completes has issued two or three storage queries (three), for
\* alice and for bob.
TheoremC7 ==
  command = "ShowBalance" =>
    /\ submits = 0
    /\ txState = "none"
    /\ \A ty \in EventTypes : subscribed[ty] = 0
    /\ queries <= 3
    /\ exit = "success" => queries \in {2, 3}

WitnessC7 ==
  command = "ShowBalance" /\ user = "Bob" /\ exit = "success" /\ queries = 3

\* C8: in make-proposal a hash that is not 64 hex digits fails the run
\* before the connection to the node is opened, with an error, and no
\* transaction is submitted.
ClaimC8 ==
  (command = "MakeProposal"
     /\ (hashArg.chars # 2 * HashLen \/ ~hashArg.hex)) =>
    /\ connects = 0
    /\ submits = 0
    /\ exit \in {"running", "error"}

\* C9: in make-proposal the Tabled subscription is opened only after the
\* submission was finalized successfully, the Started subscription only
\* after the Tabled wait returned, and a submission and the subscriptions
\* are never in flight two at a time.
TheoremC9 ==
  command = "MakeProposal" =>
    /\ (waitFor # "none" \/ subscribed["Tabled"] > 0) => txState = "finalized_ok"
    /\ (waitFor = "Started" \/ subscribed["Started"] > 0) =>
         results["Tabled"].kind # "none"
    /\ subOpen + InFlight <= 1
    /\ \A ty \in EventTypes : subscribed[ty] <= 1
    /\ subscribed["Passed"] = 0

WitnessC9 ==
  /\ command = "MakeProposal"
  /\ results["Tabled"].kind = "ok"
  /\ subscribed["Started"] = 1
  /\ subOpen = 1
  /\ pc = "ev_next"

====
